---- MODULE Spec2Model ----
(***************************************************************************)
(* The two Krylov engines of sprsolve, BiCGStab_Backup::solve               *)
(* (src/src/bicg_stab.rs) and MinRes::solve (src/src/minres.rs), over the   *)
(* real instantiation of the scalar type T, in exact arithmetic.            *)
(*                                                                         *)
(* A scalar of type T is an extended rational <<n, d>>: d > 0 is the        *)
(* fraction n/d in lowest terms, <<1,0>> and <<-1,0>> are the IEEE          *)
(* infinities and <<0,0>> is NaN, so that a division by zero does what it   *)
(* does in the build instead of being left out.  Big = <<0,-1>> stands for  *)
(* a value the model cannot hold (a fraction whose parts exceed 2^30, or    *)
(* the conversion of an irrational real to T); it absorbs every operation,  *)
(* and a step that produces or tests it ends the run at pc = "outside",     *)
(* about which nothing is claimed.                                          *)
(*                                                                         *)
(* A value of type T::Real (a norm, a tolerance, a sine) is a pair <<q, k>>  *)
(* of an extended rational q and k in {1, 2}: <<q, 1>> is the real q and    *)
(* <<q, 2>> is sgn(q) * sqrt(|q|), kept only when that root is irrational.  *)
(* Products, quotients, negation, abs and comparisons of such reals are     *)
(* exact, and norm2 is exact.                                               *)
(***************************************************************************)
EXTENDS Integers, Sequences, FiniteSets, TLC

\* ------------------------------------------------------------------------
\* Scalar arithmetic (cauchy::Scalar for f64, exact on finite values)
\* ------------------------------------------------------------------------
IAbs(i) == IF i < 0 THEN -i ELSE i

ISgn(i) == IF i > 0 THEN 1 ELSE IF i < 0 THEN -1 ELSE 0

RECURSIVE Gcd(_, _)
Gcd(a, b) == IF b = 0 THEN a ELSE Gcd(b, a % b)

Zero == <<0, 1>>

One == <<1, 1>>

NaN == <<0, 0>>

Inf == <<1, 0>>

Big == <<0, -1>>

IsNaN(a) == a = NaN

\* the product u * v stays within 2^30
Fits(u, v) == u = 0 \/ v = 0 \/ IAbs(v) <= 1073741824 \div IAbs(u)

\* the extended rational n/d: lowest terms, positive denominator
Frac(n, d) ==
    IF d = 0 THEN <<ISgn(n), 0>>
    ELSE LET g == Gcd(IAbs(n), IAbs(d))
             s == ISgn(d)
         IN  <<(s * n) \div g, (s * d) \div g>>

Neg(a) == IF a = Big THEN Big ELSE <<-a[1], a[2]>>

\* inf + inf = inf, inf - inf = NaN; finite sums over the least common
\* denominator
Add(a, b) ==
    IF a = Big \/ b = Big THEN Big
    ELSE IF a[2] = 0 /\ b[2] = 0 THEN (IF a = b THEN a ELSE NaN)
    ELSE IF a[2] = 0 THEN a
    ELSE IF b[2] = 0 THEN b
    ELSE LET g == Gcd(a[2], b[2])
             a2 == a[2] \div g
             b2 == b[2] \div g
         IN  IF Fits(a[1], b2) /\ Fits(b[1], a2) /\ Fits(a2, b[2])
             THEN Frac(a[1] * b2 + b[1] * a2, a2 * b[2])
             ELSE Big

Sub(a, b) == Add(a, Neg(b))

\* 0 * inf = NaN; finite products cancel across before multiplying
Mul(a, b) ==
    IF a = Big \/ b = Big THEN Big
    ELSE IF a[2] = 0 \/ b[2] = 0 THEN Frac(a[1] * b[1], 0)
    ELSE LET g1 == Gcd(IAbs(a[1]), b[2])
             g2 == Gcd(IAbs(b[1]), a[2])
             n1 == a[1] \div g1
             n2 == b[1] \div g2
             d1 == a[2] \div g2
             d2 == b[2] \div g1
         IN  IF Fits(n1, n2) /\ Fits(d1, d2) THEN <<n1 * n2, d1 * d2>> ELSE Big

\* 1/0 is +inf, 1/inf is 0, 1/NaN is NaN
Recip(a) == IF a = Big THEN Big ELSE Frac(a[2], a[1])

Div(a, b) == Mul(a, Recip(b))

\* the order of n1/d1 and n2/d2 (d1, d2 > 0) as -1, 0, 1, by comparing
\* integer parts and then the reciprocals of the fractional parts
RECURSIVE Cmp(_, _, _, _)
Cmp(n1, d1, n2, d2) ==
    LET q1 == n1 \div d1
        q2 == n2 \div d2
        r1 == n1 % d1
        r2 == n2 % d2
    IN  IF q1 # q2 THEN (IF q1 < q2 THEN -1 ELSE 1)
        ELSE IF r1 = 0 \/ r2 = 0 THEN (IF r1 = r2 THEN 0 ELSE IF r1 = 0 THEN -1 ELSE 1)
        ELSE -Cmp(d1, r1, d2, r2)

\* the order of two extended rationals, neither NaN
Order(a, b) ==
    IF a[2] = 0 \/ b[2] = 0
    THEN LET ia == IF a[2] = 0 THEN a[1] ELSE 0
             ib == IF b[2] = 0 THEN b[1] ELSE 0
         IN  ISgn(ia - ib)
    ELSE Cmp(a[1], a[2], b[1], b[2])

\* a < b and a <= b, false when either side is NaN
Lt(a, b) == a # Big /\ b # Big /\ ~IsNaN(a) /\ ~IsNaN(b) /\ Order(a, b) < 0

Le(a, b) == a # Big /\ b # Big /\ ~IsNaN(a) /\ ~IsNaN(b) /\ Order(a, b) <= 0

RECURSIVE ISqrt(_, _, _)
ISqrt(k, lo, hi) ==
    IF lo >= hi THEN lo
    ELSE LET mid == (lo + hi + 1) \div 2
         IN  IF mid * mid <= k THEN ISqrt(k, mid, hi) ELSE ISqrt(k, lo, mid - 1)

IRoot(k) == ISqrt(k, 0, IF k < 46340 THEN k ELSE 46340)

IsSquare(k) == IRoot(k) * IRoot(k) = k

\* ------------------------------------------------------------------------
\* Real arithmetic (T::Real = f64)
\* ------------------------------------------------------------------------
\* the real q
Real(q) == <<q, 1>>

\* sgn(q) * sqrt(|q|)
Sqrt(q) ==
    IF q[2] <= 0 THEN <<q, 1>>
    ELSE IF IsSquare(IAbs(q[1])) /\ IsSquare(q[2])
    THEN <<<<ISgn(q[1]) * IRoot(IAbs(q[1])), IRoot(q[2])>>, 1>>
    ELSE <<q, 2>>

\* r * |r|
SignedSq(r) == IF r[2] = 1 THEN Mul(r[1], <<IAbs(r[1][1]), r[1][2]>>) ELSE r[1]

RMul(r1, r2) ==
    IF r1[2] = 1 /\ r2[2] = 1 THEN <<Mul(r1[1], r2[1]), 1>>
    ELSE Sqrt(Mul(SignedSq(r1), SignedSq(r2)))

RDiv(r1, r2) ==
    IF r1[2] = 1 /\ r2[2] = 1 THEN <<Div(r1[1], r2[1]), 1>>
    ELSE Sqrt(Div(SignedSq(r1), SignedSq(r2)))

RLt(r1, r2) ==
    IF r1[2] = 1 /\ r2[2] = 1 THEN Lt(r1[1], r2[1])
    ELSE Lt(SignedSq(r1), SignedSq(r2))

RLe(r1, r2) ==
    IF r1[2] = 1 /\ r2[2] = 1 THEN Le(r1[1], r2[1])
    ELSE Le(SignedSq(r1), SignedSq(r2))

RNeg(r) == <<Neg(r[1]), r[2]>>

\* r1 + r2 of two rational reals
RAdd(r1, r2) == IF r1[2] = 1 /\ r2[2] = 1 THEN <<Add(r1[1], r2[1]), 1>> ELSE <<Big, 1>>

\* num_traits::Float::abs
rabs(r) == <<<<IAbs(r[1][1]), r[1][2]>>, r[2]>>

RZero == Real(Zero)

ROne == Real(One)

\* Scalar::abs() and Scalar::re() of a T
abs(a) == Real(<<IAbs(a[1]), a[2]>>)

re(a) == Real(a)

\* Scalar::square() of a T
square(a) == Real(Mul(a, a))

\* num_traits::Float::sqrt of a rational real; NaN below zero
sqrt(r) ==
    IF r[2] # 1 THEN <<Big, 1>>
    ELSE IF Lt(r[1], Zero) THEN Real(NaN)
    ELSE Sqrt(r[1])

\* T::from_real(r), a.mul_real(r) and a.div_real(r); exact on rational reals
from_real(r) == IF r[2] = 1 THEN r[1] ELSE Big

mul_real(a, r) == Mul(a, from_real(r))

div_real(a, r) == Div(a, from_real(r))

\* ------------------------------------------------------------------------
\* Vector algebra (src/src/vecalg.rs, the fallback loops) and the operator
\* ------------------------------------------------------------------------
RECURSIVE FoldDot(_, _, _, _)
FoldDot(x, y, i, acc) ==
    IF i > Len(x) THEN acc
    ELSE FoldDot(x, y, i + 1, Add(acc, Mul(x[i], y[i])))

\* conj_dot(x, y) = sum conj(x[i]) * y[i]; conj is the identity on reals
conj_dot(x, y) == FoldDot(x, y, 1, Zero)

\* norm2(v) = sqrt(sum v[i].square())
norm2(v) == sqrt(Real(FoldDot(v, v, 1, Zero)))

\* axpy(a, x, y): y[i] += x[i] * a
axpy(a, x, y) == [i \in 1..Len(y) |-> Add(y[i], Mul(x[i], a))]

\* scale(a, v): v[i] *= a
scale(a, v) == [i \in 1..Len(v) |-> Mul(v[i], a)]

\* dot(x, y) = sum x[i] * y[i]
dot(x, y) == FoldDot(x, y, 1, Zero)

\* conj(x, y): y[i] = x[i].conj(); conj is the identity on reals
conj(x, y) == [i \in 1..Len(y) |-> x[i]]

\* axpby(a, x, b, y): y[i] = x[i] * a + y[i] * b
axpby_SwapsCoefficients(a, x, bb, y) ==
    [i \in 1..Len(y) |-> Add(Mul(x[i], bb), Mul(y[i], a))]

axpby(a, x, bb, y) == [i \in 1..Len(y) |-> Add(Mul(x[i], a), Mul(y[i], bb))]

ZeroVec(n) == [i \in 1..n |-> Zero]

RECURSIVE RowDot(_, _, _, _)
RowDot(row, v, j, acc) ==
    IF j > Len(row) THEN acc
    ELSE RowDot(row, v, j + 1,
                IF row[j] = Zero THEN acc ELSE Add(acc, Mul(row[j], v[j])))

\* v_out = A * v_in over the stored (non-zero) entries of each row
mul_vec_unchecked(A, v_in) == [i \in 1..Len(A) |-> RowDot(A[i], v_in, 1, Zero)]

\* the fused product: <<conj(v_in) . (A * v_in), A * v_in>>
mul_vec_dot_unchecked(A, v_in) ==
    LET v_out == mul_vec_unchecked(A, v_in)
    IN  <<conj_dot(v_in, v_out), v_out>>

\* ------------------------------------------------------------------------
\* Complex scalars (T = Complex64) and the products of MklMat
\* (src/src/mkl_mat.rs).  A complex scalar is <<re, im>> with integer parts.
\* ------------------------------------------------------------------------
C64(r, i) == <<r, i>>

COMPLEX64_ZERO == C64(0, 0)

COMPLEX64_ONE == C64(1, 0)

CAdd(u, v) == C64(u[1] + v[1], u[2] + v[2])

CMul(u, v) == C64(u[1] * v[1] - u[2] * v[2], u[1] * v[2] + u[2] * v[1])

CConj(u) == C64(u[1], 0 - u[2])

RECURSIVE CFoldDot(_, _, _, _)
CFoldDot(x, y, i, acc) ==
    IF i > Len(x) THEN acc
    ELSE CFoldDot(x, y, i + 1, CAdd(acc, CMul(CConj(x[i]), y[i])))

\* vecalg::conj_dot on Complex64: sum conj(x[i]) * y[i]
conj_dot_c64(x, y) == CFoldDot(x, y, 1, COMPLEX64_ZERO)

\* op(A) for a sparse_operation_t
SparseOperation(operation, Am) ==
    [i \in 1..Len(Am) |-> [j \in 1..Len(Am) |->
        IF operation = "NON_TRANSPOSE" THEN Am[i][j]
        ELSE IF operation = "TRANSPOSE" THEN Am[j][i]
        ELSE CConj(Am[j][i])]]

RECURSIVE CRowDot(_, _, _, _)
CRowDot(row, v, j, acc) ==
    IF j > Len(row) THEN acc
    ELSE CRowDot(row, v, j + 1, CAdd(acc, CMul(row[j], v[j])))

\* mkl_sparse_z_mv: y := alpha * op(A) * x + beta * y; y is not read when
\* beta is zero
mkl_sparse_z_mv(operation, alpha, Am, xv, beta, yv) ==
    LET opA == SparseOperation(operation, Am)
    IN  [i \in 1..Len(Am) |->
            CAdd(CMul(alpha, CRowDot(opA[i], xv, 1, COMPLEX64_ZERO)),
                 IF beta = COMPLEX64_ZERO THEN COMPLEX64_ZERO
                 ELSE CMul(beta, yv[i]))]

\* mkl_sparse_z_dotmv: y as mkl_sparse_z_mv leaves it, d := sum conj(x[i]) * y[i]
mkl_sparse_z_dotmv(operation, alpha, Am, xv, beta, yv) ==
    LET y == mkl_sparse_z_mv(operation, alpha, Am, xv, beta, yv)
    IN  [d |-> CFoldDot(xv, y, 1, COMPLEX64_ZERO), y |-> y]

\* MklMat::mul_vec_unchecked on Complex64: what it leaves in v_out
mul_vec_unchecked_c64(Am, v_in, v_out) ==
    mkl_sparse_z_mv("NON_TRANSPOSE", COMPLEX64_ONE, Am, v_in, COMPLEX64_ZERO, v_out)

\* MklMat::mul_vec_dot_unchecked on Complex64: the scalar it returns and
\* what it leaves in v_out
mul_vec_dot_unchecked_c64_Accumulates(Am, v_in, v_out) ==
    mkl_sparse_z_dotmv("NON_TRANSPOSE", COMPLEX64_ONE, Am, v_in, COMPLEX64_ONE, v_out)

mul_vec_dot_unchecked_c64(Am, v_in, v_out) ==
    mkl_sparse_z_dotmv("NON_TRANSPOSE", COMPLEX64_ONE, Am, v_in, COMPLEX64_ZERO, v_out)

\* ------------------------------------------------------------------------
\* Bounds and inputs
\* ------------------------------------------------------------------------
\* largest max_iter a caller passes
MaxIter == 3

Q(i) == <<i, 1>>

Mat(rows) == [i \in 1..Len(rows) |-> [j \in 1..Len(rows[i]) |-> Q(rows[i][j])]]

\* T::Real::epsilon(): a power of two below 1 (2^-52 for f64; 2^-4 here, so
\* that the squares of the breakdown threshold stay machine integers)
Epsilon == Real(<<1, 16>>)

\* the operators a solver is constructed on: identity, symmetric indefinite,
\* symmetric positive definite, upper triangular, skew, two singular ones, a
\* non-symmetric one on which two Lanczos steps stay rational, and a singular
\* 3 x 3 one on which BiCGStab restarts in two iterations of one call
Operators ==
    { Mat(<<<<1, 0>>, <<0, 1>>>>),
      Mat(<<<<0, 1>>, <<1, 0>>>>),
      Mat(<<<<2, 1>>, <<1, 2>>>>),
      Mat(<<<<-1, 1>>, <<0, 1>>>>),
      Mat(<<<<0, 1>>, <<-1, 0>>>>),
      Mat(<<<<-1, 0>>, <<1, 0>>>>),
      Mat(<<<<1, 0>>, <<1, 0>>>>),
      Mat(<<<<-3, -3>>, <<1, 0>>>>),
      Mat(<<<<0, -1, 2>>, <<-1, -1, 1>>, <<0, 0, 0>>>>) }

\* an operator that is not square (2 x 3)
NonSquare == { Mat(<<<<1, 0, 1>>, <<0, 1, 0>>>>) }

\* storage orders of the sparse matrix handed to BiCGStab_Backup::new
Storages == {"CSR", "CSC"}

\* values of the argument size of MinRes::new
Sizes == {1, 2}

Rows(op) == Len(op)

Cols(op) == Len(op[1])

Engines == {"BiCGStab", "MinRes"}

Vals == {Q(-1), Zero, One}

\* buffers a caller passes: every vector of the system dimension over Vals,
\* and one too short and one too long
Buffers == [1..2 -> Vals] \cup {<<One>>, <<One, Zero, One>>}

\* initial guesses a caller passes in x
Guesses ==
    { <<Zero, Zero>>, <<One, Zero>>, <<Zero, One>>, <<One, Q(-1)>>,
      <<One>>, <<One, Zero, One>> }

\* tolerances a caller passes: 0, 1/2, 1
Tolerances == {Real(Zero), Real(<<1, 2>>), Real(One)}

\* ------------------------------------------------------------------------
\* State
\* ------------------------------------------------------------------------
VARIABLES
    engine,     \* which solver was constructed
    A,          \* the operator the solver is bound to
    storage,    \* the storage order of A
    size,       \* A.rows() (BiCGStab) / MinRes.size
    workspace,  \* the arena: six windows of size scalars, 0..5
    rhs,        \* argument rhs of the running solve call
    x,          \* argument x (in/out)
    max_iter,   \* argument max_iter
    tol,        \* argument tol
    pc,         \* position of the call
    result,     \* what solve returned
    b,          \* locals of BiCGStab_Backup::solve
    m,          \* locals of MinRes::solve
    hist,       \* history: x at the call and after each solution update
    restarts,   \* history: loop indices at which the shadow residual was reset
    calls,      \* history: number of solve calls made on the instance
    first,      \* history: what the first call returned and left in x
    vec1,       \* vecalg: argument vec1 (input buffer)
    vec2,       \* vecalg: argument vec2 (second input, or the output buffer)
    va,         \* vecalg: argument a
    vb,         \* vecalg: argument b
    vpc,        \* vecalg: "ready", "returned" or "panicked"
    vret,       \* vecalg: the scalar the last call returned
    vlog,       \* vecalg history: the functions that returned, in order
    vy0,        \* vecalg history: vec2 as first passed
    mat,        \* MklMat: the CsMat passed to new and the fields of the struct
    mpc,        \* MklMat: position of the owner of the value
    mcall,      \* MklMat: the method of the last step
    vin,        \* MklMat: argument v_in of mul_vec / mul_vec_dot
    vout,       \* MklMat: argument v_out of mul_vec / mul_vec_dot
    mret,       \* MklMat: the scalar mul_vec_dot returned
    mlog        \* MklMat history: the native calls and releases, in order

\* the state of a solver instance and of a call on it
solver == <<engine, A, storage, size, workspace, rhs, x, max_iter, tol, pc, result,
            b, m, hist, restarts, calls, first>>

\* the state of a caller of the vector kernels
vecalg == <<vec1, vec2, va, vb, vpc, vret, vlog, vy0>>

\* the state of an MklMat and of its owner
mklmat == <<mat, mpc, mcall, vin, vout, mret, mlog>>

vars == <<solver, vecalg, mklmat>>

NoResult == [kind |-> "none", its |-> 0, rel |-> RZero]

Ok(its, rel) == [kind |-> "Ok", its |-> its, rel |-> rel]

Err(kind, its) == [kind |-> kind, its |-> its, rel |-> RZero]

BLocals ==
    [rhs_norm |-> RZero, tol2 |-> RZero, r0_norm |-> RZero, r0_norm_tol |-> RZero,
     w |-> Zero, rho |-> Zero, rho_old |-> Zero, alpha |-> Zero, tmp |-> Zero,
     its |-> 0]

MLocals ==
    [rhs_norm |-> RZero, threshold |-> RZero, c |-> Zero, c_old |-> Zero,
     s |-> RZero, s_old |-> RZero, eta |-> Zero, res_norm |-> RZero,
     beta |-> RZero, beta_new |-> RZero, beta_one |-> RZero, alpha |-> Zero,
     r1 |-> RZero, r2 |-> Zero, r3 |-> RZero,
     v_old |-> 0, v_new |-> 1, v |-> 2, p_old |-> 3, p_oold |-> 4, p |-> 5,
     its |-> 0,
     applied |-> 0]   \* how often the call has applied the operator

NoOutcome == [result |-> NoResult, x |-> <<>>]

\* before the constructor runs
\* no vector kernel is called
NoVecalg ==
    /\ vec1 = <<>>
    /\ vec2 = <<>>
    /\ va = Zero
    /\ vb = Zero
    /\ vpc = "unused"
    /\ vret = Zero
    /\ vlog = <<>>
    /\ vy0 = <<>>

\* no MklMat is constructed
NoMklMat ==
    /\ mat = [data |-> <<>>, shape |-> "csr", size |-> 0,
              sp_handle |-> "null", arrays |-> "held"]
    /\ mpc = "unused"
    /\ mcall = "none"
    /\ vin = <<>>
    /\ vout = <<>>
    /\ mret = COMPLEX64_ZERO
    /\ mlog = <<>>

Init ==
    /\ engine \in Engines
    /\ A = <<>>
    /\ storage = "CSR"
    /\ size = 0
    /\ workspace = [k \in 0..5 |-> <<>>]
    /\ calls = 0
    /\ first = NoOutcome
    /\ rhs = <<>>
    /\ x = <<>>
    /\ max_iter = 0
    /\ tol = RZero
    /\ pc = "unbuilt"
    /\ result = NoResult
    /\ b = BLocals
    /\ m = MLocals
    /\ hist = <<>>
    /\ restarts = {}
    /\ NoVecalg
    /\ NoMklMat

\* BiCGStab::new(A): a square CSR matrix or IncompatibleMatrixFormat; the
\* arena is 6 * A.rows() zeros
BNew ==
    /\ pc = "unbuilt"
    /\ engine = "BiCGStab"
    /\ \E op \in Operators \cup NonSquare, st \in Storages :
          /\ A' = op
          /\ storage' = st
          /\ IF Rows(op) # Cols(op) \/ st # "CSR"
             THEN /\ pc' = "rejected"
                  /\ result' = Err("IncompatibleMatrixFormat", 0)
                  /\ UNCHANGED <<size, workspace>>
             ELSE /\ pc' = "idle"
                  /\ size' = Rows(op)
                  /\ workspace' = [k \in 0..5 |-> ZeroVec(Rows(op))]
                  /\ UNCHANGED result
    /\ UNCHANGED <<engine, rhs, x, max_iter, tol, b, m, hist, restarts, calls, first>>
    /\ UNCHANGED <<vecalg, mklmat>>

\* MinRes::new(A, size): no test, the arena is 6 * size zeros
MNew ==
    /\ pc = "unbuilt"
    /\ engine = "MinRes"
    /\ \E op \in Operators \cup NonSquare, sz \in Sizes :
          /\ A' = op
          /\ size' = sz
          /\ workspace' = [k \in 0..5 |-> ZeroVec(sz)]
    /\ pc' = "idle"
    /\ UNCHANGED <<engine, storage, rhs, x, max_iter, tol, result, b, m, hist,
                   restarts, calls, first>>
    /\ UNCHANGED <<vecalg, mklmat>>

\* a caller invokes solve(rhs, x, max_iter, tol)
Call ==
    /\ pc = "idle"
    /\ \E rhs_in \in Buffers, x_in \in Guesses, mi \in 0..MaxIter, t \in Tolerances :
          /\ rhs' = rhs_in
          /\ x' = x_in
          /\ max_iter' = mi
          /\ tol' = t
          /\ hist' = <<x_in>>
    /\ pc' = "entry"
    /\ calls' = 1
    /\ UNCHANGED <<engine, A, storage, size, workspace, result, b, m, restarts, first>>
    /\ UNCHANGED <<vecalg, mklmat>>

\* the caller invokes solve a second time on the same instance, with the
\* arguments of the first call, on the arena as the first call left it
Recall ==
    /\ pc = "done"
    /\ calls = 1
    /\ first' = [result |-> result, x |-> x]
    /\ x' = hist[1]
    /\ hist' = <<hist[1]>>
    /\ restarts' = {}
    /\ result' = NoResult
    /\ calls' = 2
    /\ pc' = "entry"
    /\ UNCHANGED <<engine, A, storage, size, workspace, rhs, max_iter, tol, b, m>>
    /\ UNCHANGED <<vecalg, mklmat>>

\* ------------------------------------------------------------------------
\* One step of a call: the part of the state a step of solve writes, and
\* the values it tests
\* ------------------------------------------------------------------------
Cur ==
    [workspace |-> workspace, x |-> x, b |-> b, m |-> m, result |-> result,
     pc |-> pc, hist |-> hist, restarts |-> restarts, tested |-> <<>>]

BigV(v) == \E i \in DOMAIN v : v[i] = Big

BigR(r) == r[1] = Big

\* the step computed or tested a value the model cannot hold
Outside(nx) ==
    \/ \E k \in DOMAIN nx.workspace : BigV(nx.workspace[k])
    \/ BigV(nx.x)
    \/ BigR(nx.result.rel)
    \/ \E i \in DOMAIN nx.tested : BigR(nx.tested[i])
    \/ \E f \in {"w", "rho", "rho_old", "alpha", "tmp"} : nx.b[f] = Big
    \/ \E f \in {"rhs_norm", "tol2", "r0_norm", "r0_norm_tol"} : BigR(nx.b[f])
    \/ \E f \in {"c", "c_old", "eta", "alpha", "r2"} : nx.m[f] = Big
    \/ \E f \in {"rhs_norm", "threshold", "s", "s_old", "res_norm", "beta",
                  "beta_new", "beta_one", "r1", "r3"} : BigR(nx.m[f])

Commit(nx) ==
    /\ IF Outside(nx)
       THEN /\ pc' = "outside"
            /\ UNCHANGED <<workspace, x, b, m, result, hist, restarts>>
       ELSE /\ workspace' = nx.workspace
            /\ x' = nx.x
            /\ b' = nx.b
            /\ m' = nx.m
            /\ result' = nx.result
            /\ pc' = nx.pc
            /\ hist' = nx.hist
            /\ restarts' = nx.restarts
    /\ UNCHANGED <<engine, A, storage, size, rhs, max_iter, tol, calls, first>>
    /\ UNCHANGED <<vecalg, mklmat>>

Return(st, res) == [st EXCEPT !.result = res, !.pc = "done"]

\* ------------------------------------------------------------------------
\* BiCGStab_Backup::solve
\* ------------------------------------------------------------------------
\* BCheck returning on a zero right-hand side without clearing x
BCheck_KeepsGuess ==
    /\ pc = "entry"
    /\ engine = "BiCGStab"
    /\ LET n == Len(rhs)
           rhs_norm == norm2(rhs)
       IN  IF n # Len(A) \/ n # Len(x)
           THEN Commit(Return(Cur, Err("IncompatibleMatrixFormat", 0)))
           ELSE IF RLe(rhs_norm, Epsilon)
           THEN Commit(Return(Cur, Ok(0, rhs_norm)))
           ELSE Commit([Cur EXCEPT !.b = [BLocals EXCEPT !.rhs_norm = rhs_norm,
                                                        !.tol2 = RMul(tol, rhs_norm)],
                                   !.pc = "b_init"])

\* lines 75-93: format checks, the zero right-hand side, tol2
BCheck ==
    /\ pc = "entry"
    /\ engine = "BiCGStab"
    /\ LET n == Len(rhs)
           rhs_norm == norm2(rhs)
       IN  IF n # Len(A) \/ n # Len(x)
           THEN Commit(Return(Cur, Err("IncompatibleMatrixFormat", 0)))
           ELSE IF RLe(rhs_norm, Epsilon)
           THEN Commit(Return([Cur EXCEPT !.x = [i \in 1..Len(x) |-> Zero]],
                              Ok(0, rhs_norm)))
           ELSE Commit([Cur EXCEPT !.b = [BLocals EXCEPT !.rhs_norm = rhs_norm,
                                                        !.tol2 = RMul(tol, rhs_norm)],
                                   !.pc = "b_init"])

\* BInit testing the initial guess with < in place of <=
BInit_StrictTest ==
    /\ pc = "b_init"
    /\ LET r == axpy(Neg(One), rhs, mul_vec_unchecked(A, x))
           r0_norm == norm2(r)
           t1 == RMul(r0_norm, Epsilon)
           st == [Cur EXCEPT !.workspace = [workspace EXCEPT ![0] = r, ![1] = r],
                             !.tested = <<r0_norm>>]
       IN  IF RLt(r0_norm, b.tol2)
           THEN Commit(Return(st, Ok(0, RDiv(r0_norm, b.rhs_norm))))
           ELSE Commit([st EXCEPT !.b = [b EXCEPT !.r0_norm = r0_norm,
                                                 !.r0_norm_tol = RMul(t1, t1)],
                                  !.pc = "b_first"])

\* lines 96-116: r = A*x - rhs, r0 = r, the test of the initial guess, the
\* breakdown threshold
BInit ==
    /\ pc = "b_init"
    /\ LET r == axpy(Neg(One), rhs, mul_vec_unchecked(A, x))
           r0_norm == norm2(r)
           t1 == RMul(r0_norm, Epsilon)
           st == [Cur EXCEPT !.workspace = [workspace EXCEPT ![0] = r, ![1] = r],
                             !.tested = <<r0_norm>>]
       IN  IF RLe(r0_norm, b.tol2)
           THEN Commit(Return(st, Ok(0, RDiv(r0_norm, b.rhs_norm))))
           ELSE Commit([st EXCEPT !.b = [b EXCEPT !.r0_norm = r0_norm,
                                                 !.r0_norm_tol = RMul(t1, t1)],
                                  !.pc = "b_first"])

\* Stabilise with x += w*s in place of x -= w*s
Stabilise_AddsStep(ws, xx, alpha, w) ==
    LET s_z == axpy(Neg(alpha), ws[4], ws[0])
        t == mul_vec_unchecked(A, s_z)
        tmp == conj_dot(t, t)
        w2 == IF tmp = Big THEN Big
              ELSE IF RLt(RZero, re(tmp)) THEN Div(conj_dot(t, s_z), tmp)
              ELSE w
        x1 == axpy(Neg(alpha), ws[3], xx)
        x2 == axpy(w2, s_z, x1)
        r == axpy(Neg(w2), t, s_z)
    IN  <<[ws EXCEPT ![2] = s_z, ![5] = t, ![0] = r], x2, w2>>

\* Stabilise dividing by t.t without the test of lines 141 and 205
Stabilise_Unguarded(ws, xx, alpha, w) ==
    LET s_z == axpy(Neg(alpha), ws[4], ws[0])
        t == mul_vec_unchecked(A, s_z)
        tmp == conj_dot(t, t)
        w2 == IF tmp = Big THEN Big ELSE Div(conj_dot(t, s_z), tmp)
        x1 == axpy(Neg(alpha), ws[3], xx)
        x2 == axpy(Neg(w2), s_z, x1)
        r == axpy(Neg(w2), t, s_z)
    IN  <<[ws EXCEPT ![2] = s_z, ![5] = t, ![0] = r], x2, w2>>

\* lines 129-153 and 193-217: s = r - alpha*v, t = A*s, the guarded w,
\* x -= alpha*y + w*s, r = s - w*t; gives <<workspace, x, w>>
Stabilise(ws, xx, alpha, w) ==
    LET s_z == axpy(Neg(alpha), ws[4], ws[0])
        t == mul_vec_unchecked(A, s_z)
        tmp == conj_dot(t, t)
        w2 == IF tmp = Big THEN Big
              ELSE IF RLt(RZero, re(tmp)) THEN Div(conj_dot(t, s_z), tmp)
              ELSE w
        x1 == axpy(Neg(alpha), ws[3], xx)
        x2 == axpy(Neg(w2), s_z, x1)
        r == axpy(Neg(w2), t, s_z)
    IN  <<[ws EXCEPT ![2] = s_z, ![5] = t, ![0] = r], x2, w2>>

\* lines 118-153: the unrolled first step
BFirst ==
    /\ pc = "b_first"
    /\ LET rho == from_real(RMul(b.r0_norm, b.r0_norm))
           y == workspace[0]
           v == mul_vec_unchecked(A, y)
           alpha == Div(rho, conj_dot(workspace[1], v))
           st == Stabilise([workspace EXCEPT ![3] = y, ![4] = v], x, alpha, One)
       IN  Commit([Cur EXCEPT !.workspace = st[1],
                              !.x = st[2],
                              !.b = [b EXCEPT !.rho = rho, !.alpha = alpha,
                                              !.w = st[3], !.its = 1],
                              !.hist = Append(hist, st[2]),
                              !.pc = "b_loop"])

\* BLoop returning Ok when the iteration budget is used up
BLoop_SwallowsFailure ==
    /\ pc = "b_loop"
    /\ LET r_norm == norm2(workspace[0])
       IN  IF b.its >= max_iter
           THEN Commit(Return(Cur, Ok(b.its, RDiv(r_norm, b.rhs_norm))))
           ELSE IF RLe(r_norm, b.tol2)
           THEN Commit(Return([Cur EXCEPT !.tested = <<r_norm>>],
                              Ok(b.its, RDiv(r_norm, b.rhs_norm))))
           ELSE Commit([Cur EXCEPT !.tested = <<r_norm>>, !.pc = "b_rho"])

\* lines 155-159 and 220: the loop bound and the convergence test
BLoop ==
    /\ pc = "b_loop"
    /\ LET r_norm == norm2(workspace[0])
       IN  IF b.its >= max_iter
           THEN Commit(Return(Cur, Err("InsufficientIterNum", max_iter)))
           ELSE IF RLe(r_norm, b.tol2)
           THEN Commit(Return([Cur EXCEPT !.tested = <<r_norm>>],
                              Ok(b.its, RDiv(r_norm, b.rhs_norm))))
           ELSE Commit([Cur EXCEPT !.tested = <<r_norm>>, !.pc = "b_rho"])

\* BRho restarting without the refresh of the threshold of line 175
BRho_StaleThreshold ==
    /\ pc = "b_rho"
    /\ LET rho == conj_dot(workspace[1], workspace[0])
           r == axpy(Neg(One), rhs, mul_vec_unchecked(A, x))
           rho2 == conj_dot(r, r)
       IN  IF RLt(abs(rho), b.r0_norm_tol)
           THEN Commit([Cur EXCEPT
                  !.workspace = [workspace EXCEPT ![0] = r, ![1] = r],
                  !.b = [b EXCEPT !.rho_old = b.rho, !.rho = rho2],
                  !.restarts = restarts \cup {b.its},
                  !.pc = "b_dir"])
           ELSE Commit([Cur EXCEPT !.b = [b EXCEPT !.rho_old = b.rho, !.rho = rho],
                                   !.pc = "b_dir"])

\* BRho reporting a small rho as BreakDown in place of restarting
BRho_FailsOnSmallRho ==
    /\ pc = "b_rho"
    /\ LET rho == conj_dot(workspace[1], workspace[0])
       IN  IF RLt(abs(rho), b.r0_norm_tol)
           THEN Commit(Return(Cur, Err("BreakDown", b.its)))
           ELSE Commit([Cur EXCEPT !.b = [b EXCEPT !.rho_old = b.rho, !.rho = rho],
                                   !.pc = "b_dir"])

\* lines 160-176: rho = conj(r0).r and the restart of the shadow residual
BRho ==
    /\ pc = "b_rho"
    /\ LET rho == conj_dot(workspace[1], workspace[0])
           r == axpy(Neg(One), rhs, mul_vec_unchecked(A, x))
           rho2 == conj_dot(r, r)
       IN  IF RLt(abs(rho), b.r0_norm_tol)
           THEN Commit([Cur EXCEPT
                  !.workspace = [workspace EXCEPT ![0] = r, ![1] = r],
                  !.b = [b EXCEPT !.rho_old = b.rho, !.rho = rho2,
                           !.r0_norm_tol = RMul(RMul(re(rho2), Epsilon), Epsilon)],
                  !.restarts = restarts \cup {b.its},
                  !.pc = "b_dir"])
           ELSE Commit([Cur EXCEPT !.b = [b EXCEPT !.rho_old = b.rho, !.rho = rho],
                                   !.pc = "b_dir"])

\* BDir testing the denominator with < in place of <=
BDir_StrictTest ==
    /\ pc = "b_dir"
    /\ LET beta == Mul(Div(b.rho, b.rho_old), Div(b.alpha, b.w))
           y1 == axpy(Neg(b.w), workspace[4], workspace[3])
           y2 == scale(beta, y1)
           y == axpy(One, workspace[0], y2)
           v == mul_vec_unchecked(A, y)
           tmp == conj_dot(workspace[1], v)
           st == [Cur EXCEPT !.workspace = [workspace EXCEPT ![3] = y, ![4] = v],
                             !.b = [b EXCEPT !.tmp = tmp]]
       IN  IF RLt(abs(tmp), RZero)
           THEN Commit(Return(st, Err("BreakDown", b.its)))
           ELSE Commit([st EXCEPT !.pc = "b_upd"])

\* BDir moving x along the new direction before the breakdown test
BDir_EarlyUpdate ==
    /\ pc = "b_dir"
    /\ LET beta == Mul(Div(b.rho, b.rho_old), Div(b.alpha, b.w))
           y1 == axpy(Neg(b.w), workspace[4], workspace[3])
           y2 == scale(beta, y1)
           y == axpy(One, workspace[0], y2)
           v == mul_vec_unchecked(A, y)
           tmp == conj_dot(workspace[1], v)
           st == [Cur EXCEPT !.workspace = [workspace EXCEPT ![3] = y, ![4] = v],
                             !.x = axpy(Neg(b.alpha), y, x),
                             !.b = [b EXCEPT !.tmp = tmp]]
       IN  IF RLe(abs(tmp), RZero)
           THEN Commit(Return(st, Err("BreakDown", b.its)))
           ELSE Commit([st EXCEPT !.pc = "b_upd"])

\* lines 177-190: beta, the direction y, v = A*y and the breakdown test
BDir ==
    /\ pc = "b_dir"
    /\ LET beta == Mul(Div(b.rho, b.rho_old), Div(b.alpha, b.w))
           y1 == axpy(Neg(b.w), workspace[4], workspace[3])
           y2 == scale(beta, y1)
           y == axpy(One, workspace[0], y2)
           v == mul_vec_unchecked(A, y)
           tmp == conj_dot(workspace[1], v)
           st == [Cur EXCEPT !.workspace = [workspace EXCEPT ![3] = y, ![4] = v],
                             !.b = [b EXCEPT !.tmp = tmp]]
       IN  IF RLe(abs(tmp), RZero)
           THEN Commit(Return(st, Err("BreakDown", b.its)))
           ELSE Commit([st EXCEPT !.pc = "b_upd"])

\* BUpd leaving r = s, without the step r -= w*t of line 217
BUpd_StaleResidual ==
    /\ pc = "b_upd"
    /\ LET alpha == Div(b.rho, b.tmp)
           st == Stabilise(workspace, x, alpha, b.w)
       IN  Commit([Cur EXCEPT !.workspace = [st[1] EXCEPT ![0] = st[1][2]],
                              !.x = st[2],
                              !.b = [b EXCEPT !.alpha = alpha, !.w = st[3],
                                              !.its = b.its + 1],
                              !.hist = Append(hist, st[2]),
                              !.pc = "b_loop"])

\* lines 192-217: alpha and the update of x and r
BUpd ==
    /\ pc = "b_upd"
    /\ LET alpha == Div(b.rho, b.tmp)
           st == Stabilise(workspace, x, alpha, b.w)
       IN  Commit([Cur EXCEPT !.workspace = st[1],
                              !.x = st[2],
                              !.b = [b EXCEPT !.alpha = alpha, !.w = st[3],
                                              !.its = b.its + 1],
                              !.hist = Append(hist, st[2]),
                              !.pc = "b_loop"])

\* ------------------------------------------------------------------------
\* MinRes::solve
\* ------------------------------------------------------------------------
\* MCheck without the comparison of rhs.len() with x.len()
MCheck_NoOutputCheck ==
    /\ pc = "entry"
    /\ engine = "MinRes"
    /\ LET n == Len(rhs)
           rhs_norm == norm2(rhs)
       IN  IF n # size
           THEN Commit(Return(Cur, Err("IncompatibleMatrixFormat", 0)))
           ELSE IF RLe(rhs_norm, Epsilon)
           THEN Commit(Return([Cur EXCEPT !.x = [i \in 1..Len(x) |-> Zero]],
                              Ok(0, rhs_norm)))
           ELSE Commit([Cur EXCEPT !.m = [MLocals EXCEPT !.rhs_norm = rhs_norm,
                                                        !.threshold = RMul(tol, rhs_norm)],
                                   !.pc = "m_init"])

\* lines 38-57: format checks, the zero right-hand side, threshold
MCheck ==
    /\ pc = "entry"
    /\ engine = "MinRes"
    /\ LET n == Len(rhs)
           rhs_norm == norm2(rhs)
       IN  IF n # size \/ n # Len(x)
           THEN Commit(Return(Cur, Err("IncompatibleMatrixFormat", 0)))
           ELSE IF RLe(rhs_norm, Epsilon)
           THEN Commit(Return([Cur EXCEPT !.x = [i \in 1..Len(x) |-> Zero]],
                              Ok(0, rhs_norm)))
           ELSE Commit([Cur EXCEPT !.m = [MLocals EXCEPT !.rhs_norm = rhs_norm,
                                                        !.threshold = RMul(tol, rhs_norm)],
                                   !.pc = "m_init"])

\* MInit without the clearing of v
MInit_KeepsLanczos ==
    /\ pc = "m_init"
    /\ LET v_old == mul_vec_unchecked(A, x)
           v_new == axpy(Neg(One), v_old, rhs)
           res_norm == norm2(v_new)
       IN  IF Len(x) # Cols(A) \/ Len(rhs) # Rows(A)
           THEN Commit([Cur EXCEPT !.pc = "undefined"])
           ELSE
           Commit([Cur EXCEPT
             !.workspace = [workspace EXCEPT
                              ![0] = v_old,
                              ![1] = scale(from_real(RDiv(ROne, res_norm)), v_new),
                              ![3] = ZeroVec(Len(rhs)),
                              ![5] = ZeroVec(Len(rhs))],
             !.m = [m EXCEPT !.c = One, !.c_old = One, !.s = RZero,
                             !.s_old = RZero, !.eta = One,
                             !.res_norm = res_norm, !.beta_new = res_norm,
                             !.beta_one = res_norm, !.its = 0,
                             !.applied = m.applied + 1],
             !.pc = "m_loop"])

\* lines 59-88: the rotation history, the six windows, v_new = (rhs - A*x)/beta_0.
\* The unchecked product on buffers that are not of the operator's dimension
\* reads or writes out of bounds: pc = "undefined" stands for every outcome
\* of that, and the call is not followed further.
MInit ==
    /\ pc = "m_init"
    /\ LET v_old == mul_vec_unchecked(A, x)
           v_new == axpy(Neg(One), v_old, rhs)
           res_norm == norm2(v_new)
       IN  IF Len(x) # Cols(A) \/ Len(rhs) # Rows(A)
           THEN Commit([Cur EXCEPT !.pc = "undefined"])
           ELSE
           Commit([Cur EXCEPT
             !.workspace = [workspace EXCEPT
                              ![0] = v_old,
                              ![1] = scale(from_real(RDiv(ROne, res_norm)), v_new),
                              ![2] = ZeroVec(Len(rhs)),
                              ![3] = ZeroVec(Len(rhs)),
                              ![5] = ZeroVec(Len(rhs))],
             !.m = [m EXCEPT !.c = One, !.c_old = One, !.s = RZero,
                             !.s_old = RZero, !.eta = One,
                             !.res_norm = res_norm, !.beta_new = res_norm,
                             !.beta_one = res_norm, !.its = 0,
                             !.applied = m.applied + 1],
             !.pc = "m_loop"])

\* lines 90 and 169: the loop bound
MLoop ==
    /\ pc = "m_loop"
    /\ IF m.its < max_iter
       THEN Commit([Cur EXCEPT !.pc = "m_lanczos"])
       ELSE Commit(Return(Cur, Err("InsufficientIterNum", max_iter)))

\* MLanczos reporting a zero beta_new as BreakDown
MLanczos_ReportsBreakdown ==
    /\ pc = "m_lanczos"
    /\ LET beta == m.beta_new
           v_old == m.v
           v == m.v_new
           v_new == m.v_old
           fused == mul_vec_dot_unchecked(A, workspace[v])
           alpha == fused[1]
           q1 == axpy(from_real(RNeg(beta)), workspace[v_old], fused[2])
           q2 == axpy(Neg(alpha), workspace[v], q1)
           beta_new == norm2(q2)
           st == [Cur EXCEPT
                    !.workspace = [workspace EXCEPT
                                     ![v_new] = scale(from_real(RDiv(ROne, beta_new)), q2)],
                    !.m = [m EXCEPT !.beta = beta, !.v_old = v_old, !.v = v,
                                    !.v_new = v_new, !.alpha = alpha,
                                    !.beta_new = beta_new,
                                    !.applied = m.applied + 1]]
       IN  IF beta_new = RZero
           THEN Commit(Return(st, Err("BreakDown", m.its)))
           ELSE Commit([st EXCEPT !.pc = "m_givens"])

\* MLanczos rotating without the temporary of line 92: v_new takes the
\* window v_old has just been given
MLanczos_NoTemporary ==
    /\ pc = "m_lanczos"
    /\ LET beta == m.beta_new
           v_old == m.v
           v == m.v_new
           v_new == m.v
           fused == mul_vec_dot_unchecked(A, workspace[v])
           alpha == fused[1]
           q1 == axpy(from_real(RNeg(beta)), workspace[v_old], fused[2])
           q2 == axpy(Neg(alpha), workspace[v], q1)
           beta_new == norm2(q2)
       IN  Commit([Cur EXCEPT
             !.workspace = [workspace EXCEPT
                              ![v_new] = scale(from_real(RDiv(ROne, beta_new)), q2)],
             !.m = [m EXCEPT !.beta = beta, !.v_old = v_old, !.v = v,
                             !.v_new = v_new, !.alpha = alpha,
                             !.beta_new = beta_new,
                             !.applied = m.applied + 1],
             !.pc = "m_givens"])

\* MLanczos with v_new = A*v and alpha = conj(v).(A*v) as two products in
\* place of the fused call of line 116
MLanczos_SeparateDot ==
    /\ pc = "m_lanczos"
    /\ LET beta == m.beta_new
           v_old == m.v
           v == m.v_new
           v_new == m.v_old
           Av == mul_vec_unchecked(A, workspace[v])
           alpha == conj_dot(workspace[v], mul_vec_unchecked(A, workspace[v]))
           q1 == axpy(from_real(RNeg(beta)), workspace[v_old], Av)
           q2 == axpy(Neg(alpha), workspace[v], q1)
           beta_new == norm2(q2)
       IN  Commit([Cur EXCEPT
             !.workspace = [workspace EXCEPT
                              ![v_new] = scale(from_real(RDiv(ROne, beta_new)), q2)],
             !.m = [m EXCEPT !.beta = beta, !.v_old = v_old, !.v = v,
                             !.v_new = v_new, !.alpha = alpha,
                             !.beta_new = beta_new,
                             !.applied = m.applied + 2],
             !.pc = "m_givens"])

\* lines 91-121: the rotation of v_old, v, v_new and the Lanczos step
MLanczos ==
    /\ pc = "m_lanczos"
    /\ LET beta == m.beta_new
           v_old == m.v
           v == m.v_new
           v_new == m.v_old
           fused == mul_vec_dot_unchecked(A, workspace[v])
           alpha == fused[1]
           q1 == axpy(from_real(RNeg(beta)), workspace[v_old], fused[2])
           q2 == axpy(Neg(alpha), workspace[v], q1)
           beta_new == norm2(q2)
       IN  Commit([Cur EXCEPT
             !.workspace = [workspace EXCEPT
                              ![v_new] = scale(from_real(RDiv(ROne, beta_new)), q2)],
             !.m = [m EXCEPT !.beta = beta, !.v_old = v_old, !.v = v,
                             !.v_new = v_new, !.alpha = alpha,
                             !.beta_new = beta_new,
                             !.applied = m.applied + 1],
             !.pc = "m_givens"])

\* MGivens storing (c_old, s_old) after (c, s) has been overwritten
MGivens_LateSave ==
    /\ pc = "m_givens"
    /\ LET r3 == RMul(m.s_old, m.beta)
           tr == mul_real(m.c_old, m.beta)
           r2 == Add(mul_real(m.alpha, m.s), Mul(m.c, tr))
           r1_hat == Sub(Mul(m.c, m.alpha), mul_real(tr, m.s))
           r1 == sqrt(RAdd(square(r1_hat), RMul(m.beta_new, m.beta_new)))
       IN  Commit([Cur EXCEPT
             !.m = [m EXCEPT !.r3 = r3, !.r2 = r2, !.r1 = r1,
                             !.c_old = div_real(r1_hat, r1),
                             !.s_old = RDiv(m.beta_new, r1),
                             !.c = div_real(r1_hat, r1),
                             !.s = RDiv(m.beta_new, r1)],
             !.pc = "m_update"])

\* lines 132-146: the two previous rotations on [0 beta alpha], the new one
MGivens ==
    /\ pc = "m_givens"
    /\ LET r3 == RMul(m.s_old, m.beta)
           tr == mul_real(m.c_old, m.beta)
           r2 == Add(mul_real(m.alpha, m.s), Mul(m.c, tr))
           r1_hat == Sub(Mul(m.c, m.alpha), mul_real(tr, m.s))
           r1 == sqrt(RAdd(square(r1_hat), RMul(m.beta_new, m.beta_new)))
       IN  Commit([Cur EXCEPT
             !.m = [m EXCEPT !.r3 = r3, !.r2 = r2, !.r1 = r1,
                             !.c_old = m.c, !.s_old = m.s,
                             !.c = div_real(r1_hat, r1),
                             !.s = RDiv(m.beta_new, r1)],
             !.pc = "m_update"])

\* lines 149-166: the rotation of p_oold, p_old, p, the update of x, the
\* residual estimate and the convergence test
MUpdate ==
    /\ pc = "m_update"
    /\ LET p_oold == m.p_old
           p_old == m.p
           p == m.p_oold
           p1 == axpy(Neg(m.r2), workspace[p_old], workspace[m.v])
           p2 == axpy(from_real(RNeg(m.r3)), workspace[p_oold], p1)
           p3 == scale(from_real(RDiv(ROne, m.r1)), p2)
           x1 == axpy(mul_real(Mul(m.c, m.eta), m.beta_one), p3, x)
           res_norm == RMul(m.res_norm, rabs(m.s))
           st == [Cur EXCEPT
                    !.workspace = [workspace EXCEPT ![p] = p3],
                    !.x = x1,
                    !.hist = Append(hist, x1),
                    !.m = [m EXCEPT !.p_oold = p_oold, !.p_old = p_old, !.p = p,
                                    !.res_norm = res_norm]]
       IN  IF RLt(res_norm, m.threshold)
           THEN Commit(Return(st, Ok(m.its, RDiv(res_norm, m.rhs_norm))))
           ELSE Commit([st EXCEPT !.m.eta = mul_real(m.eta, RNeg(m.s)),
                                  !.m.its = m.its + 1,
                                  !.pc = "m_loop"])

Next ==
    \/ BNew \/ MNew \/ Call \/ Recall
    \/ BCheck \/ BInit \/ BFirst \/ BLoop \/ BRho \/ BDir \/ BUpd
    \/ MCheck \/ MInit \/ MLoop \/ MLanczos \/ MGivens \/ MUpdate

Spec == Init /\ [][Next]_vars

\* ------------------------------------------------------------------------
\* The vector kernels called directly (src/src/vecalg.rs, the public
\* functions): a caller passes two buffers and calls kernels on them
\* ------------------------------------------------------------------------
MaxCalls == 4

VecBuffers ==
    {<<One>>, <<Q(2)>>,
     <<Zero, Zero>>, <<Zero, One>>, <<One, Q(-1)>>,
     <<Zero, Zero, Zero>>, <<One, Zero, Q(2)>>}

Coefficients == {Q(-1), One, Q(2)}

\* no solver is constructed
NoSolver ==
    /\ engine = "none"
    /\ A = <<>>
    /\ storage = "CSR"
    /\ size = 0
    /\ workspace = [k \in 0..5 |-> <<>>]
    /\ calls = 0
    /\ first = NoOutcome
    /\ rhs = <<>>
    /\ x = <<>>
    /\ max_iter = 0
    /\ tol = RZero
    /\ pc = "unbuilt"
    /\ result = NoResult
    /\ b = BLocals
    /\ m = MLocals
    /\ hist = <<>>
    /\ restarts = {}

VecInit ==
    /\ NoSolver
    /\ vec1 \in VecBuffers
    /\ vec2 \in VecBuffers
    /\ va \in Coefficients
    /\ vb \in Coefficients
    /\ vpc = "ready"
    /\ vret = Zero
    /\ vlog = <<>>
    /\ vy0 = vec2
    /\ NoMklMat

\* the caller may make a call
Callable == vpc \in {"ready", "returned"} /\ Len(vlog) < MaxCalls

\* assert_eq!(vec1.len(), vec2.len()) failed: the call unwinds
Panic ==
    /\ vpc' = "panicked"
    /\ UNCHANGED <<vec1, vec2, va, vb, vret, vlog, vy0>>

\* the call returned scalar d and left out in vec2
Returned(fn, d, out) ==
    /\ vpc' = "returned"
    /\ vret' = d
    /\ vec2' = out
    /\ vlog' = Append(vlog, fn)
    /\ UNCHANGED <<vec1, va, vb, vy0>>

\* vecalg::dot(vec1, vec2)
Dot ==
    /\ Callable
    /\ IF Len(vec1) # Len(vec2) THEN Panic
       ELSE Returned("dot", dot(vec1, vec2), vec2)
    /\ UNCHANGED <<solver, mklmat>>

\* vecalg::conj_dot(vec1, vec2)
ConjDot ==
    /\ Callable
    /\ IF Len(vec1) # Len(vec2) THEN Panic
       ELSE Returned("conj_dot", conj_dot(vec1, vec2), vec2)
    /\ UNCHANGED <<solver, mklmat>>

\* vecalg::conj(vec1, vec2)
Conj ==
    /\ Callable
    /\ IF Len(vec1) # Len(vec2) THEN Panic
       ELSE Returned("conj", vret, conj(vec1, vec2))
    /\ UNCHANGED <<solver, mklmat>>

\* vecalg::axpy(a, vec1, vec2)
Axpy_ChecksAfterLoop ==
    /\ Callable
    /\ IF Len(vec1) # Len(vec2)
       THEN /\ vpc' = "panicked"
            /\ vec2' = [i \in 1..Len(vec2) |->
                          IF i <= Len(vec1) THEN Add(vec2[i], Mul(vec1[i], va))
                          ELSE vec2[i]]
            /\ UNCHANGED <<vec1, va, vb, vret, vlog, vy0>>
       ELSE Returned("axpy", vret, axpy(va, vec1, vec2))
    /\ UNCHANGED <<solver, mklmat>>

Axpy ==
    /\ Callable
    /\ IF Len(vec1) # Len(vec2) THEN Panic
       ELSE Returned("axpy", vret, axpy(va, vec1, vec2))
    /\ UNCHANGED <<solver, mklmat>>

\* vecalg::axpby(a, vec1, b, vec2)
Axpby ==
    /\ Callable
    /\ IF Len(vec1) # Len(vec2) THEN Panic
       ELSE Returned("axpby", vret, axpby(va, vec1, vb, vec2))
    /\ UNCHANGED <<solver, mklmat>>

VecNext == Dot \/ ConjDot \/ Conj \/ Axpy \/ Axpby

VecSpec == VecInit /\ [][VecNext]_vars

\* ------------------------------------------------------------------------
\* MklMat (src/src/mkl_mat.rs): construction, products and release of the
\* native handle.  Every native routine returns a status the model leaves
\* open.
\* ------------------------------------------------------------------------
MaxUses == 2

SUCCESS == "SPARSE_STATUS_SUCCESS"

Status == {SUCCESS, "SPARSE_STATUS_ALLOC_FAILED"}

CMatrices ==
    {<< <<C64(0, 1)>> >>,
     << <<C64(1, 0), C64(0, 0)>>, <<C64(0, 0), C64(1, 0)>> >>,
     << <<C64(0, 1), C64(1, 0)>>, <<C64(0, 0), C64(2, 0)>> >>,
     << <<C64(1, 1), C64(-1, 0)>>, <<C64(2, 0), C64(0, -1)>> >>}

\* the matrices passed to new: square CSR ones, a CSC one and one that is
\* not square
CsMats ==
    [data : CMatrices, shape : {"csr"}]
      \cup {[data |-> << <<C64(1, 0), C64(0, 0)>>, <<C64(0, 0), C64(1, 0)>> >>,
              shape |-> "csc"],
             [data |-> << <<C64(1, 0), C64(0, 1)>> >>, shape |-> "not square"]}

CBuffers ==
    {<<C64(0, 1)>>, <<C64(2, 0)>>,
     <<C64(0, 0), C64(0, 0)>>, <<C64(1, 0), C64(0, 1)>>, <<C64(1, 1), C64(-2, 0)>>,
     <<C64(1, 0), C64(0, 0), C64(0, 1)>>}

MklInit ==
    /\ NoSolver
    /\ NoVecalg
    /\ \E cs \in CsMats :
          mat = [data |-> cs.data, shape |-> cs.shape, size |-> 0,
                 sp_handle |-> "null", arrays |-> "held"]
    /\ mpc = "start"
    /\ mcall = "none"
    /\ vin \in CBuffers
    /\ vout \in CBuffers
    /\ mret = COMPLEX64_ZERO
    /\ mlog = <<>>

\* the products and hints issued on the handle so far
Uses ==
    LET IsUse(e) == e \in {"mv", "dotmv", "hint"}
    IN  Len(SelectSeq(mlog, IsUse))

\* MklMat::new up to the creation of the handle: the two assertions, then
\* mkl_sparse_z_create_csr; on failure Err is returned and the arrays, still
\* locals, are freed
New_Create ==
    /\ mpc = "start"
    /\ mcall' = "new"
    /\ \E status \in Status :
          IF mat.shape # "csr"
          THEN /\ mpc' = "panicked"
               /\ mat' = [mat EXCEPT !.arrays = "freed"]
               /\ mlog' = Append(mlog, "free")
          ELSE IF status # SUCCESS
          THEN /\ mpc' = "failed"
               /\ mat' = [mat EXCEPT !.arrays = "freed"]
               /\ mlog' = mlog \o <<"create_csr", "free">>
          ELSE /\ mpc' = "created"
               /\ mat' = [mat EXCEPT !.size = Len(mat.data), !.sp_handle = "live"]
               /\ mlog' = Append(mlog, "create_csr")
    /\ UNCHANGED <<vin, vout, mret>>
    /\ UNCHANGED <<solver, vecalg>>

\* MklMat::new after the struct is built: mret.mv_hint(..)? (set_mv_hint,
\* then optimize); on failure Err is returned and mret goes out of scope
New_Hint_DestroysOnError ==
    /\ mpc = "created"
    /\ mcall' = "new"
    /\ \E hint \in Status, optimize \in Status :
          IF hint # SUCCESS
          THEN /\ mpc' = "failing"
               /\ mlog' = mlog \o <<"set_mv_hint", "destroy">>
               /\ mat' = [mat EXCEPT !.sp_handle = "destroyed"]
          ELSE IF optimize # SUCCESS
          THEN /\ mpc' = "failing"
               /\ mlog' = mlog \o <<"set_mv_hint", "optimize", "destroy">>
               /\ mat' = [mat EXCEPT !.sp_handle = "destroyed"]
          ELSE /\ mpc' = "owned"
               /\ mlog' = mlog \o <<"set_mv_hint", "optimize">>
               /\ mat' = mat
    /\ UNCHANGED <<vin, vout, mret>>
    /\ UNCHANGED <<solver, vecalg>>

New_Hint ==
    /\ mpc = "created"
    /\ mcall' = "new"
    /\ \E hint \in Status, optimize \in Status :
          IF hint # SUCCESS
          THEN /\ mpc' = "failing"
               /\ mlog' = Append(mlog, "set_mv_hint")
          ELSE IF optimize # SUCCESS
          THEN /\ mpc' = "failing"
               /\ mlog' = mlog \o <<"set_mv_hint", "optimize">>
          ELSE /\ mpc' = "owned"
               /\ mlog' = mlog \o <<"set_mv_hint", "optimize">>
    /\ UNCHANGED <<mat, vin, vout, mret>>
    /\ UNCHANGED <<solver, vecalg>>

\* mv_hint / mv_and_dotmv_hint called by the owner: Ok or Err, the value
\* stays with the owner
Hint ==
    /\ mpc = "owned"
    /\ Uses < MaxUses
    /\ mcall' = "mv_hint"
    /\ mlog' = Append(mlog, "hint")
    /\ UNCHANGED <<mat, mpc, vin, vout, mret>>
    /\ UNCHANGED <<solver, vecalg>>

\* MatVecMul::mul_vec(v_in, v_out): panics on a length that is not size,
\* and when the native product fails
MulVec ==
    /\ mpc = "owned"
    /\ Uses < MaxUses
    /\ mcall' = "mul_vec"
    /\ \E status \in Status :
          IF mat.size # Len(vin) \/ mat.size # Len(vout)
          THEN /\ mpc' = "unwinding"
               /\ UNCHANGED <<vout, mlog>>
          ELSE IF status # SUCCESS
          THEN /\ mpc' = "unwinding"
               /\ mlog' = Append(mlog, "mv")
               /\ vout' \in {vout, mul_vec_unchecked_c64(mat.data, vin, vout)}
          ELSE /\ mpc' = "owned"
               /\ mlog' = Append(mlog, "mv")
               /\ vout' = mul_vec_unchecked_c64(mat.data, vin, vout)
    /\ UNCHANGED <<mat, vin, mret>>
    /\ UNCHANGED <<solver, vecalg>>

\* MatVecMul::mul_vec_dot(v_in, v_out)
MulVecDot ==
    /\ mpc = "owned"
    /\ Uses < MaxUses
    /\ mcall' = "mul_vec_dot"
    /\ \E status \in Status :
          IF mat.size # Len(vin) \/ mat.size # Len(vout)
          THEN /\ mpc' = "unwinding"
               /\ UNCHANGED <<vout, mret, mlog>>
          ELSE IF status # SUCCESS
          THEN /\ mpc' = "unwinding"
               /\ mlog' = Append(mlog, "dotmv")
               /\ vout' \in {vout, mul_vec_dot_unchecked_c64(mat.data, vin, vout).y}
               /\ mret' = mret
          ELSE /\ mpc' = "owned"
               /\ mlog' = Append(mlog, "dotmv")
               /\ vout' = mul_vec_dot_unchecked_c64(mat.data, vin, vout).y
               /\ mret' = mul_vec_dot_unchecked_c64(mat.data, vin, vout).d
    /\ UNCHANGED <<mat, vin>>
    /\ UNCHANGED <<solver, vecalg>>

\* the value goes out of scope: Drop::drop issues mkl_sparse_destroy, then
\* the fields are dropped; a failed destroy panics, which aborts the
\* process when the owner is already unwinding
Drop ==
    /\ mpc \in {"failing", "owned", "unwinding"}
    /\ mcall' = "drop"
    /\ \E status \in Status :
          IF status = SUCCESS
          THEN /\ mpc' = IF mpc = "failing" THEN "failed" ELSE "gone"
               /\ mat' = [mat EXCEPT !.sp_handle = "destroyed", !.arrays = "freed"]
               /\ mlog' = mlog \o <<"destroy", "free">>
          ELSE IF mpc = "unwinding"
          THEN /\ mpc' = "aborted"
               /\ mat' = [mat EXCEPT !.sp_handle = "destroyed"]
               /\ mlog' = Append(mlog, "destroy")
          ELSE /\ mpc' = "panicked"
               /\ mat' = [mat EXCEPT !.sp_handle = "destroyed", !.arrays = "freed"]
               /\ mlog' = mlog \o <<"destroy", "free">>
    /\ UNCHANGED <<vin, vout, mret>>
    /\ UNCHANGED <<solver, vecalg>>

MklNext == New_Create \/ New_Hint \/ Hint \/ MulVec \/ MulVecDot \/ Drop

MklSpec == MklInit /\ [][MklNext]_vars

\* ------------------------------------------------------------------------
\* Properties
\* ------------------------------------------------------------------------
\* the argument x as the caller passed it
Guess == hist[1]

\* the number of solution updates applied to x so far
Updates == Len(hist) - 1

\* the arena as the constructor left it
Fresh == [k \in 0..5 |-> ZeroVec(size)]

\* A*xx - rhs and the square of its norm
Residual(xx) == axpy(Neg(One), rhs, mul_vec_unchecked(A, xx))

ResSq(xx) == conj_dot(Residual(xx), Residual(xx))

\* (tol * norm2(rhs))^2
TolSq == Mul(Mul(tol[1], tol[1]), conj_dot(rhs, rhs))

\* both sides of the tolerance test on xx are values the model holds
Decided(xx) == ResSq(xx) # Big /\ TolSq # Big

\* norm2(A*xx - rhs) <= tol * norm2(rhs)
Meets(xx) == Le(ResSq(xx), TolSq)

Started == pc \notin {"unbuilt", "rejected", "idle", "entry"}

BadLengths == Len(rhs) # Len(Guess) \/ Len(rhs) # size

Iterative == ~BadLengths /\ ~RLe(norm2(rhs), Epsilon)

\* the 3 x 3 operator of Operators is singular
Invertible ==
    /\ Len(A) = 2
    /\ Sub(Mul(A[1][1], A[2][2]), Mul(A[1][2], A[2][1])) # Zero

Symmetric == \A i, j \in 1..Len(A) : A[i][j] = A[j][i]

\* C1: a call whose rhs differs in length from x or from the system
\* dimension returns IncompatibleMatrixFormat at its first step, with x as
\* the caller passed it, no solution update and the arena untouched.
C1_MismatchRejected ==
    (Started /\ BadLengths) =>
        /\ pc = "done"
        /\ result.kind = "IncompatibleMatrixFormat"
        /\ x = Guess
        /\ Updates = 0
        /\ workspace = Fresh

C1_Witness ==
    /\ pc = "done"
    /\ engine = "MinRes"
    /\ Len(rhs) = size
    /\ Len(x) # Len(rhs)
    /\ result.kind = "IncompatibleMatrixFormat"

\* C2: when a call on an invertible operator (symmetric for MinRes) with
\* rhs above epsilon returns Ok, the x left in place satisfies
\* norm2(A*x - rhs) <= tol * norm2(rhs).
C2_OkMeetsTolerance ==
    (pc = "done" /\ result.kind = "Ok" /\ Iterative /\ Invertible
       /\ (engine = "MinRes" => Symmetric)) =>
        Decided(x) /\ Meets(x)

C2_Witness ==
    /\ pc = "done"
    /\ engine = "BiCGStab"
    /\ Iterative
    /\ Invertible
    /\ tol = RZero
    /\ result.kind = "Ok"
    /\ result.its >= 2
    /\ x # Guess
    /\ ResSq(x) = Zero

\* C3: a zero rhs of the right length gives Ok((0, 0)) at the first step
\* and x all zero, whatever the operator, the guess, max_iter and tol.
C3_ZeroRhs ==
    (Started /\ ~BadLengths /\ rhs = ZeroVec(size)) =>
        /\ pc = "done"
        /\ result = Ok(0, RZero)
        /\ x = ZeroVec(size)

C3_Witness ==
    /\ pc = "done"
    /\ engine = "BiCGStab"
    /\ rhs = ZeroVec(size)
    /\ Guess = <<One, Q(-1)>>
    /\ max_iter = 0
    /\ result = Ok(0, RZero)
    /\ x = ZeroVec(size)

Identity == Mat(<<<<1, 0>>, <<0, 1>>>>)

\* C4: on the identity, with rhs above epsilon, a zero guess, tol > 0 and
\* max_iter >= 1, a call of either engine returns Ok with a count of at
\* most 1 and x = rhs.
C4_IdentityInOneStep ==
    (pc = "done" /\ A = Identity /\ Iterative /\ Guess = ZeroVec(size)
       /\ RLt(RZero, tol) /\ max_iter >= 1) =>
        /\ result.kind = "Ok"
        /\ result.its <= 1
        /\ x = rhs

\* C5: BiCGStab returns InsufficientIterNum(m) only with m = max_iter and
\* only when the x left in place does not meet the tolerance.
C5_InsufficientMeansNotMet ==
    (pc = "done" /\ engine = "BiCGStab" /\ result.kind = "InsufficientIterNum") =>
        /\ result.its = max_iter
        /\ Decided(x)
        /\ ~Meets(x)

\* C6: on success the count returned is the number of solution updates
\* applied to x in the call, for both engines.
C6_CountIsUpdates ==
    (pc = "done" /\ result.kind = "Ok") => result.its = Updates

\* C7: in loop iteration k of BiCGStab, a denominator conj(r0).v that is
\* exactly zero makes the step return BreakDown(k) with 1 <= k <=
\* max_iter - 1, alpha and x as they were.
C7_ZeroDenominatorBreaksDown ==
    [][(pc = "b_dir" /\ pc' # "outside" /\ b'.tmp = Zero) =>
          /\ pc' = "done"
          /\ result' = Err("BreakDown", b.its)
          /\ 1 <= b.its
          /\ b.its <= max_iter - 1
          /\ b'.alpha = b.alpha
          /\ x' = x
          /\ hist' = hist]_vars

C7_Witness ==
    /\ pc = "done"
    /\ result = Err("BreakDown", 2)
    /\ b.tmp = Zero
    /\ max_iter = 3

\* C8: when BiCGStab returns BreakDown(k), exactly k solution updates have
\* been applied and x is the iterate the k-th of them produced.
C8_BreakDownKeepsIterate ==
    (pc = "done" /\ result.kind = "BreakDown") =>
        /\ Updates = result.its
        /\ x = hist[result.its + 1]

C8_Witness ==
    /\ pc = "done"
    /\ result.kind = "BreakDown"
    /\ result.its \in restarts
    /\ x = hist[result.its + 1]
    /\ x # Guess

\* C9: when a call returns InsufficientIterNum, the x left in place is the
\* best iterate of the call: its residual norm is a number, and no larger
\* than that of the guess and of every iterate produced before it.
C9_LastIterateIsBest ==
    (pc = "done" /\ result.kind = "InsufficientIterNum") =>
        \A i \in 1..Len(hist) :
            ResSq(hist[i]) # Big => Le(ResSq(x), ResSq(hist[i]))

\* C10: BiCGStab on a guess that already meets the tolerance (rhs above
\* epsilon) returns Ok((0, norm2(A*x - rhs) / norm2(rhs))) before any
\* update, with x as passed, for every max_iter.
C10_GuessAccepted ==
    (Started /\ engine = "BiCGStab" /\ Iterative /\ pc # "b_init"
       /\ RLe(norm2(Residual(Guess)), RMul(tol, norm2(rhs)))) =>
        /\ pc = "done"
        /\ result = Ok(0, RDiv(norm2(Residual(Guess)), norm2(rhs)))
        /\ x = Guess
        /\ Updates = 0

C10_Witness ==
    /\ pc = "done"
    /\ engine = "BiCGStab"
    /\ Iterative
    /\ max_iter = 0
    /\ Guess # ZeroVec(size)
    /\ ResSq(Guess) = Zero
    /\ result = Ok(0, RZero)
    /\ x = Guess

\* C11: a second call with the arguments of the first, made on the arena
\* as the first call left it, returns what the first call returned and
\* leaves the same x.
C11_ArenaDoesNotLeak ==
    (pc = "done" /\ calls = 2) => (result = first.result /\ x = first.x)

C11_Witness ==
    /\ pc = "done"
    /\ calls = 2
    /\ engine = "MinRes"
    /\ result.kind = "Ok"
    /\ result.its >= 1
    /\ workspace # Fresh
    /\ x = first.x

\* C12: a constructor given an operator that is not square, or (MinRes) a
\* size different from the operator's dimension, fails with
\* IncompatibleMatrixFormat and yields no instance.
C12_ConstructorRejects ==
    (pc # "unbuilt"
       /\ (Rows(A) # Cols(A) \/ (engine = "MinRes" /\ size # Rows(A)))) =>
        (pc = "rejected" /\ result.kind = "IncompatibleMatrixFormat")

\* C13: MinRes never returns BreakDown; a call that returns ends in Ok,
\* IncompatibleMatrixFormat or InsufficientIterNum, on symmetric and on
\* non-symmetric operators alike.
C13_MinResNeverBreaksDown ==
    (engine = "MinRes" /\ pc = "done") =>
        result.kind \in {"Ok", "IncompatibleMatrixFormat", "InsufficientIterNum"}

C13_Witness ==
    /\ engine = "MinRes"
    /\ pc = "done"
    /\ size = Rows(A)
    /\ Rows(A) = Cols(A)
    /\ ~Symmetric
    /\ Updates >= 1
    /\ m.beta_new = RZero
    /\ result.kind = "Ok"

\* the steps of a call that follow the format checks
Running ==
    {"b_init", "b_first", "b_loop", "b_rho", "b_dir", "b_upd",
     "m_init", "m_loop", "m_lanczos", "m_givens", "m_update"}

\* C15: the unchecked operator methods are called only after the format
\* checks, and on buffers whose length is the operator's dimension.
C15_UncheckedCallsFit ==
    /\ pc # "undefined"
    /\ pc \in Running =>
          /\ Len(rhs) = Rows(A)
          /\ Len(x) = Cols(A)
          /\ size = Rows(A)

Kinds == {"Ok", "IncompatibleMatrixFormat", "BreakDown", "InsufficientIterNum"}

\* the positions of a call that has not ended
InCall ==
    pc \in {"entry", "b_init", "b_first", "b_loop", "b_rho", "b_dir", "b_upd",
            "m_init", "m_loop", "m_lanczos", "m_givens", "m_update"}

\* how far the call has got: the statements before the loop, then four
\* positions for each loop iteration, then the end of the call
Progress ==
    CASE pc = "entry" -> 0
      [] pc \in {"b_init", "m_init"} -> 1
      [] pc = "b_first" -> 2
      [] pc = "b_loop" -> 4 * b.its - 1
      [] pc = "b_rho" -> 4 * b.its
      [] pc = "b_dir" -> 4 * b.its + 1
      [] pc = "b_upd" -> 4 * b.its + 2
      [] pc = "m_loop" -> 4 * m.its + 2
      [] pc = "m_lanczos" -> 4 * m.its + 3
      [] pc = "m_givens" -> 4 * m.its + 4
      [] pc = "m_update" -> 4 * m.its + 5
      [] OTHER -> 4 * max_iter + 8

\* the loop body runs with an index below max_iter
LoopBounded ==
    /\ pc \in {"b_rho", "b_dir", "b_upd"} => (1 <= b.its /\ b.its <= max_iter - 1)
    /\ pc \in {"m_lanczos", "m_givens", "m_update"} => m.its <= max_iter - 1

\* the buffers can be multiplied by the operator
Fit == Len(rhs) = Rows(A) /\ Len(x) = Cols(A)

C17_ExactGuessIsOk ==
    (/\ pc = "done"
     /\ max_iter >= 1
     /\ engine = "MinRes"
     /\ size = Rows(A)
     /\ Symmetric
     /\ Iterative
     /\ RLt(RZero, tol)
     /\ Residual(Guess) = ZeroVec(size))
        => (result.kind = "Ok" /\ x = Guess)

\* conj(r0).v of the unrolled first step, as line 128 is about to divide by it
FirstDenominator == conj_dot(workspace[1], mul_vec_unchecked(A, workspace[0]))

\* C18: every division of BiCGStab has a non-zero divisor: conj(r0).v of the
\* unrolled first step, the denominator of alpha in the loop, and rho_old
\* and w in beta.
C18_DivisorsNonZero ==
    /\ pc = "b_first" => FirstDenominator # Zero
    /\ pc = "b_upd" => b.tmp # Zero
    /\ pc = "b_dir" => (b.rho_old # Zero /\ b.w # Zero)

\* a convergence test at the loop head, or a return after the initial residual
AtTestOrReturn ==
    /\ engine = "BiCGStab"
    /\ \/ pc = "b_loop"
       \/ pc = "done" /\ Iterative

\* C19: in BiCGStab the residual window r holds A*x - rhs at every
\* convergence test at the loop head and at every return that follows the
\* initial residual.
C19_ResidualIsTrue ==
    (AtTestOrReturn /\ ~BigV(Residual(x))) => workspace[0] = Residual(x)

\* the loop head after two updates, one of them past a restart, with a
\* finite iterate and a residual that is not yet zero
C19_Witness ==
    /\ engine = "BiCGStab"
    /\ pc = "b_loop"
    /\ b.its = 2
    /\ Updates = 2
    /\ restarts # {}
    /\ \A i \in DOMAIN x : x[i][2] > 0
    /\ workspace[0] # ZeroVec(size)
    /\ workspace[0] = Residual(x)

\* line 163 finds |conj(r0).r| below the threshold
SmallRho ==
    /\ pc = "b_rho"
    /\ RLt(abs(conj_dot(workspace[1], workspace[0])), b.r0_norm_tol)

\* C20: when |rho| is below the threshold the call does not return there: it
\* sets r and r0 to A*x - rhs, rho to conj(r).r and the threshold to
\* rho * eps^2, leaves x and the iteration index as they are and goes on with
\* the same iteration.
C20_RestartContinues ==
    [][(SmallRho /\ pc' # "outside") =>
          /\ pc' = "b_dir"
          /\ result' = result
          /\ x' = x
          /\ b'.its = b.its
          /\ workspace'[0] = Residual(x)
          /\ workspace'[1] = Residual(x)
          /\ b'.rho = ResSq(x)
          /\ b'.rho_old = b.rho
          /\ b'.r0_norm_tol = RMul(RMul(re(ResSq(x)), Epsilon), Epsilon)
          /\ restarts' = restarts \cup {b.its}]_vars

\* a call that restarted in two iterations and went on to update x
C20_Witness ==
    /\ engine = "BiCGStab"
    /\ pc = "b_loop"
    /\ restarts = {1, 2}
    /\ b.its = 3
    /\ Updates = 3
    /\ \A i \in DOMAIN x : x[i][2] > 0

\* C21: a call never applies more than max_iter solution updates to x; with
\* max_iter = 0 and a guess that does not meet the tolerance it returns
\* InsufficientIterNum(0) with x as the caller passed it.
C21_UpdatesWithinBudget ==
    /\ (Started /\ pc # "undefined") => Updates <= max_iter
    /\ (pc = "done" /\ max_iter = 0 /\ Iterative /\ Fit /\ size = Rows(A)
        /\ Decided(Guess) /\ ~Meets(Guess))
          => (result = Err("InsufficientIterNum", 0) /\ x = Guess)

\* lines 67-73: the window with index k, as the half-open range of arena
\* positions it covers in a call with n = rhs.len()
Window(k) == [lo |-> k * Len(rhs), hi |-> (k + 1) * Len(rhs)]

InMinResLoop == pc \in {"m_loop", "m_lanczos", "m_givens", "m_update"}

\* the roles are on pairwise distinct windows, the Lanczos roles on windows
\* 0-2 and the direction roles on windows 3-5, and the six windows lie in
\* the arena without overlapping
RolesApart ==
    /\ {m.v_old, m.v, m.v_new} = {0, 1, 2}
    /\ m.v_old # m.v /\ m.v # m.v_new /\ m.v_new # m.v_old
    /\ {m.p_oold, m.p_old, m.p} = {3, 4, 5}
    /\ m.p_oold # m.p_old /\ m.p_old # m.p /\ m.p # m.p_oold
    /\ \A j, k \in 0..5 : j < k => Window(j).hi <= Window(k).lo
    /\ Window(5).hi <= 6 * size

\* C22: in MinRes::solve the roles v_old, v, v_new are always on three
\* distinct windows of 0-2 and p_oold, p_old, p on three distinct windows of
\* 3-5, the six windows do not overlap, and each rotation is the cyclic shift
\* of the role-to-window map.
C22_RolesNeverAliased ==
    /\ []((engine = "MinRes" /\ InMinResLoop) => RolesApart)
    /\ [][(pc = "m_lanczos" /\ pc' = "m_givens") =>
            (m'.v_old = m.v /\ m'.v = m.v_new /\ m'.v_new = m.v_old)]_vars
    /\ [][(pc = "m_update" /\ pc' \in {"m_loop", "done"}) =>
            (m'.p_oold = m.p_old /\ m'.p_old = m.p /\ m'.p = m.p_oold)]_vars

\* the third iteration: the Lanczos roles are back on the windows they
\* started on, the direction roles have been rotated twice
C22_Witness ==
    /\ engine = "MinRes"
    /\ pc = "m_update"
    /\ m.its = 2
    /\ m.v_old = 0 /\ m.v_new = 1 /\ m.v = 2
    /\ m.p_old = 4 /\ m.p_oold = 5 /\ m.p = 3

\* the positions of BiCGStab_Backup::solve after the threshold is first set
AfterThreshold == pc \in {"b_first", "b_loop", "b_rho", "b_dir", "b_upd"}

\* epsilon^2 * norm2(r0)^2 for the r0 now in window 1
ThresholdOfShadow ==
    RMul(RMul(re(conj_dot(workspace[1], workspace[1])), Epsilon), Epsilon)

\* C23: throughout BiCGStab::solve the breakdown threshold is
\* epsilon^2 * norm2(r0)^2 for the current r0; after initialisation only a
\* restart changes the threshold or writes r0.
C23_ThresholdFollowsShadow ==
    /\ []((engine = "BiCGStab" /\ AfterThreshold) => b.r0_norm_tol = ThresholdOfShadow)
    /\ [][(engine = "BiCGStab" /\ AfterThreshold /\ ~(SmallRho /\ pc' = "b_dir")) =>
            (workspace'[1] = workspace[1] /\ b'.r0_norm_tol = b.r0_norm_tol)]_vars

\* past a restart that gave r0 a new norm, with one more update applied
C23_Witness ==
    /\ engine = "BiCGStab"
    /\ pc = "b_loop"
    /\ b.its = 2
    /\ restarts = {1}
    /\ workspace[1] = Residual(hist[2])
    /\ conj_dot(workspace[1], workspace[1]) # ResSq(Guess)
    /\ b.r0_norm_tol = ThresholdOfShadow

\* the step that computes w and applies it: the unrolled one or a loop step
UpdateStep == pc \in {"b_first", "b_upd"} /\ pc' # "outside"

\* C24: in the unrolled first step and in every loop step w becomes
\* (t.s)/(t.t) only when t.t > 0 and otherwise keeps its previous value (1 in
\* the first step); either way no error is returned and the step applies
\* x -= alpha*y + w*s and r = s - w*t.
C24_GuardedStabilisation ==
    [][UpdateStep =>
         LET s_z == workspace'[2]
             y == workspace'[3]
             t == workspace'[5]
             tmp == conj_dot(t, t)
             kept == IF pc = "b_first" THEN One ELSE b.w
         IN  /\ pc' = "b_loop"
             /\ result' = result
             /\ b'.w = IF RLt(RZero, re(tmp)) THEN Div(conj_dot(t, s_z), tmp) ELSE kept
             /\ x' = axpy(Neg(b'.w), s_z, axpy(Neg(b'.alpha), y, x))
             /\ workspace'[0] = axpy(Neg(b'.w), t, s_z)]_vars

\* a loop step has found t = 0 for a non-zero s and kept the w of the step
\* before it
C24_Witness ==
    /\ engine = "BiCGStab"
    /\ pc = "b_loop"
    /\ b.its = 2
    /\ workspace[5] = ZeroVec(size)
    /\ workspace[2] # ZeroVec(size)
    /\ b.w # One
    /\ \A i \in DOMAIN x : x[i][2] > 0

\* C25: iteration k of MinRes computes r3, r2 and r1_hat from the rotation
\* (c, s) of iteration k-1 and the rotation (c_old, s_old) of iteration k-2
\* (1 and 0 before the first iteration); (c_old, s_old) takes the previous
\* (c, s) and (c, s) the new rotation r1_hat/r1, beta_new/r1; no other step
\* of the loop changes either rotation.
C25_RotationsInOrder ==
    /\ []((engine = "MinRes" /\ InMinResLoop /\ pc # "m_update" /\ m.its = 0) =>
            (m.c = One /\ m.c_old = One /\ m.s = RZero /\ m.s_old = RZero))
    /\ [][(pc = "m_givens" /\ pc' = "m_update") =>
            LET tr == mul_real(m.c_old, m.beta)
                r1_hat == Sub(Mul(m.c, m.alpha), mul_real(tr, m.s))
            IN  /\ m'.r3 = RMul(m.s_old, m.beta)
                /\ m'.r2 = Add(mul_real(m.alpha, m.s), Mul(m.c, tr))
                /\ m'.r1 = sqrt(RAdd(square(r1_hat), RMul(m.beta_new, m.beta_new)))
                /\ m'.c_old = m.c
                /\ m'.s_old = m.s
                /\ m'.c = div_real(r1_hat, m'.r1)
                /\ m'.s = RDiv(m.beta_new, m'.r1)]_vars
    /\ [][(engine = "MinRes" /\ InMinResLoop /\ pc # "m_givens") =>
            (m'.c = m.c /\ m'.s = m.s /\ m'.c_old = m.c_old /\ m'.s_old = m.s_old)]_vars

\* the third iteration, where both earlier rotations are proper ones
C25_Witness ==
    /\ engine = "MinRes"
    /\ pc = "m_update"
    /\ m.its = 2
    /\ m.r3 # RZero
    /\ m.s_old # RZero
    /\ m.c_old # One
    /\ m.c # m.c_old
    /\ m.r1[1][2] > 0

\* C26: MinRes::solve applies the operator once before the loop and once in
\* every loop iteration: a call that has run j iterations has applied it
\* j + 1 times, and only the Lanczos step of an iteration applies it.
C26_OneProductPerIteration ==
    /\ []((engine = "MinRes" /\ InMinResLoop) =>
            m.applied = 1 + m.its + (IF pc \in {"m_givens", "m_update"} THEN 1 ELSE 0))
    /\ []((engine = "MinRes" /\ pc = "done" /\ Iterative) => m.applied = Updates + 1)
    /\ [][(engine = "MinRes" /\ InMinResLoop /\ pc' # "outside") =>
            m'.applied = m.applied + (IF pc = "m_lanczos" THEN 1 ELSE 0)]_vars

\* a call that ran three iterations and applied the operator four times
C26_Witness ==
    /\ engine = "MinRes"
    /\ pc = "done"
    /\ result = Err("InsufficientIterNum", 3)
    /\ Updates = 3
    /\ m.applied = 4

\* C28: dot, conj_dot, conj, axpy and axpby called with two buffers of
\* different lengths fail before anything is written: the call panics and
\* both buffers are as passed.  Called with equal lengths they return, the
\* input buffer is as passed, and dot and conj_dot leave the second buffer
\* as passed too.
C28_LengthsCheckedFirst ==
    /\ [][(Callable /\ Len(vec1) # Len(vec2))
            => (vpc' = "panicked" /\ vec1' = vec1 /\ vec2' = vec2
                /\ vret' = vret /\ vlog' = vlog)]_vars
    /\ [][(Callable /\ Len(vec1) = Len(vec2))
            => /\ vpc' = "returned"
               /\ vec1' = vec1
               /\ Len(vec2') = Len(vec2)
               /\ vlog'[Len(vlog')] \in {"dot", "conj_dot"} => vec2' = vec2
               /\ vlog'[Len(vlog')] \in {"conj", "axpy", "axpby"} => vret' = vret]_vars

C28_Witness ==
    /\ vpc = "panicked"
    /\ Len(vec1) = 3
    /\ Len(vec2) = 2
    /\ vec1[1] # Zero
    /\ vec2 = vy0
    /\ vlog = <<>>

\* the function of the call that just returned
LastCall == vlog'[Len(vlog')]

\* every call so far was fn
Only(fn) == \A i \in 1..Len(vlog) : vlog[i] = fn

Product(Am, v) ==
    [i \in 1..Len(Am) |->
        IF Len(Am) = 1 THEN CMul(Am[i][1], v[1])
        ELSE CAdd(CMul(Am[i][1], v[1]), CMul(Am[i][2], v[2]))]

Conjugated(u, v) ==
    IF Len(u) = 1 THEN CMul(CConj(u[1]), v[1])
    ELSE CAdd(CMul(CConj(u[1]), v[1]), CMul(CConj(u[2]), v[2]))

BadDimension == mat.size # Len(vin) \/ mat.size # Len(vout)

\* C27: mul_vec_dot(v_in, v_out) leaves in v_out what mul_vec leaves there,
\* A * v_in, and returns conj_dot(v_in, v_out), conjugated in v_in; mul_vec
\* and mul_vec_dot reject a v_in or v_out whose length is not size before
\* v_out is touched.
C27_FusedProduct ==
    /\ [][(mcall' = "mul_vec_dot" /\ mpc' = "owned")
            => /\ vout' = mul_vec_unchecked_c64(mat.data, vin, vout)
               /\ vout' = Product(mat.data, vin)
               /\ mret' = conj_dot_c64(vin, vout')
               /\ mret' = Conjugated(vin, vout')]_vars
    /\ [][(mcall' = "mul_vec" /\ mpc' = "owned")
            => (vout' = Product(mat.data, vin) /\ mret' = mret)]_vars
    /\ [][(mcall' \in {"mul_vec", "mul_vec_dot"} /\ BadDimension)
            => (mpc' = "unwinding" /\ vout' = vout /\ mret' = mret
                /\ mlog' = mlog)]_vars

C27_Witness ==
    /\ mcall = "mul_vec_dot"
    /\ mpc = "owned"
    /\ mat.data = << <<C64(1, 1), C64(-1, 0)>>, <<C64(2, 0), C64(0, -1)>> >>
    /\ vin = <<C64(1, 0), C64(0, 1)>>
    /\ vout = <<C64(1, 0), C64(3, 0)>>
    /\ mret = C64(1, -3)

\* the number of mkl_sparse_destroy calls issued
Destroys ==
    LET IsDestroy(e) == e = "destroy"
    IN  Len(SelectSeq(mlog, IsDestroy))

\* the owner no longer holds the value, or never got one
Released == mpc \in {"gone", "failed", "panicked", "aborted"}

\* C30: the handle created by new is destroyed exactly once, on drop, also
\* when the hint or the optimisation fails inside new; no native call uses
\* it after the destroy; the destroy precedes the release of the arrays;
\* when the creation fails no destroy is issued.
C30_HandleDestroyedOnce ==
    /\ [](Destroys <= 1)
    /\ [](Released => (Destroys = 1 <=> mat.sp_handle # "null"))
    /\ []((mat.sp_handle = "destroyed") <=> (Destroys = 1))
    /\ [](\A i \in 1..Len(mlog), j \in 1..Len(mlog) :
              (i < j /\ mlog[i] = "destroy")
                 => mlog[j] \notin {"mv", "dotmv", "hint", "set_mv_hint",
                                    "optimize", "destroy"})
    /\ [](\A i \in 1..Len(mlog) :
              (mlog[i] = "free" /\ mat.sp_handle # "null")
                 => \E j \in 1..(i - 1) : mlog[j] = "destroy")
    /\ [][(mcall' = "drop") <=> (Destroys' = Destroys + 1)]_vars

C30_Witness ==
    /\ mpc = "failed"
    /\ mlog = <<"create_csr", "set_mv_hint", "optimize", "destroy", "free">>
    /\ mat.sp_handle = "destroyed"
    /\ mat.arrays = "freed"

====
